---- MODULE Spec2Model ----
(***************************************************************************)
(* Green Grid Simulator: battery, grid, load, inverter, solar panel, the   *)
(* three energy-dispatch strategies of GreenGridSimulation, its            *)
(* construction from config.py and its simulate process.                   *)
(*                                                                         *)
(* Arithmetic.  The program computes in floating point; the model computes *)
(* the same expressions exactly, in fixed point:                           *)
(*   - energies are integers, Unit of them to the kWh;                     *)
(*   - a state of charge is an integer, SocScale of them to the percent    *)
(*     (SocScale is chosen so that one SOC unit is one energy unit of the  *)
(*     configured battery);                                                *)
(*   - money is an integer, PriceDen * Unit of them to the cent;           *)
(*   - the efficiency 0.9 is the fraction EffNum / EffDen.                 *)
(* The arguments offered to the operations are multiples of Unit \div 100, *)
(* which keeps every product with the efficiency an integer (ExactModel).  *)
(***************************************************************************)
EXTENDS Integers, Sequences, FiniteSets, TLC

\* ------------------------------------------------------------------------
\* Bounds of the model
\* ------------------------------------------------------------------------
\* Number of calls made on the battery, the grid and the dispatcher.
MaxSteps == 3
\* Number of inverter failures explored.
MaxFailures == 1

\* ------------------------------------------------------------------------
\* config.py
\* ------------------------------------------------------------------------
Unit == 100 * 100          \* model energy units per kWh
PriceDen == 10 * 10        \* prices are given in hundredths

BATTERY_COUNT == 1
BATTERY_CAPACITY == (135 * Unit) \div 10    \* 13.5 kWh
BATTERY_MIN_SOC == 5
BATTERY_MAX_SOC == 100
EffNum == 9                \* BATTERY_EFFICIENCY = 0.9 = EffNum / EffDen
EffDen == 10
BATTERY_INITIAL_SOC == 50

INVERTER_MAX_OUTPUT == 4 * Unit
INVERTER_MIN_FAILURE_HOURS == 4
INVERTER_MAX_FAILURE_HOURS == 72

GRID_EXPORT_LIMIT == 20 * Unit
GRID_IMPORT_COST == 75     \* 0.75 = 75 / PriceDen
GRID_EXPORT_REVENUE == 90  \* 0.90 = 90 / PriceDen

SOLAR_PEAK_POWER == 5 * Unit
SIMULATION_DAYS == 30
TIME_STEP_MINUTES == 60

ENERGY_MANAGEMENT_STRATEGY == "CHARGE_PRIORITY"
Strategies == {"LOAD_PRIORITY", "CHARGE_PRIORITY", "PRODUCE_PRIORITY"}
\* ENERGY_MANAGEMENT_STRATEGY is a free string: "OTHER" stands for every value
\* that is none of the three.
StrategyValues == Strategies \cup {"OTHER"}

\* ------------------------------------------------------------------------
\* Helpers
\* ------------------------------------------------------------------------
Min(a, b) == IF a <= b THEN a ELSE b
Max(a, b) == IF a >= b THEN a ELSE b

\* x * efficiency
MulEff(x) == (x * EffNum) \div EffDen

\* SOC units per percent
SocScale == (BATTERY_CAPACITY * BATTERY_COUNT) \div 100
\* p percent, in SOC units
Pct(p) == p * SocScale

\* ------------------------------------------------------------------------
\* components/battery.py
\* ------------------------------------------------------------------------
\* Battery.__init__ with config.BATTERY_INITIAL_SOC = initial_soc (percent)
Battery(count, initial_soc) ==
    [ capacity         |-> BATTERY_CAPACITY * count,
      min_soc          |-> Pct(BATTERY_MIN_SOC),
      max_soc          |-> Pct(BATTERY_MAX_SOC),
      current_soc      |-> Pct(initial_soc),
      total_charged    |-> 0,
      total_discharged |-> 0,
      charge_cycles    |-> 0,
      discharge_cycles |-> 0 ]

\* (current_soc / 100.0) * capacity
get_current_energy(b) == (b.current_soc * (b.capacity \div 100)) \div SocScale

\* (soc / 100.0) * capacity for one of the two SOC limits
soc_energy(b, soc) == (soc * (b.capacity \div 100)) \div SocScale

\* (new_energy / capacity) * 100.0
soc_of_energy(b, new_energy) == (new_energy * SocScale) \div (b.capacity \div 100)

\* Mutant of charge: the stored amount is not capped by the available space.
charge_uncapped(b, energy_kwh) ==
    LET effective_energy == MulEff(energy_kwh)
        current_energy   == get_current_energy(b)
        actual_charged   == effective_energy
    IN  [ b   |-> IF actual_charged > 0
                  THEN [b EXCEPT !.current_soc   = soc_of_energy(b, current_energy + actual_charged),
                                 !.total_charged = @ + actual_charged,
                                 !.charge_cycles = @ + 1]
                  ELSE b,
          ret |-> actual_charged ]

\* Mutant of charge: the capped amount is stored, the uncapped one is returned.
charge_returns_effective(b, energy_kwh) ==
    LET effective_energy == MulEff(energy_kwh)
        current_energy   == get_current_energy(b)
        max_energy       == soc_energy(b, b.max_soc)
        available_space  == max_energy - current_energy
        actual_charged   == Min(effective_energy, available_space)
    IN  [ b   |-> IF actual_charged > 0
                  THEN [b EXCEPT !.current_soc   = soc_of_energy(b, current_energy + actual_charged),
                                 !.total_charged = @ + actual_charged,
                                 !.charge_cycles = @ + 1]
                  ELSE b,
          ret |-> effective_energy ]

\* Battery.charge: the battery after the call and the value returned
charge(b, energy_kwh) ==
    LET effective_energy == MulEff(energy_kwh)
        current_energy   == get_current_energy(b)
        max_energy       == soc_energy(b, b.max_soc)
        available_space  == max_energy - current_energy
        actual_charged   == Min(effective_energy, available_space)
    IN  [ b   |-> IF actual_charged > 0
                  THEN [b EXCEPT !.current_soc   = soc_of_energy(b, current_energy + actual_charged),
                                 !.total_charged = @ + actual_charged,
                                 !.charge_cycles = @ + 1]
                  ELSE b,
          ret |-> actual_charged ]

\* Mutant of discharge: the drawn amount is returned, without the efficiency loss.
discharge_returns_drawn(b, energy_needed_kwh) ==
    LET current_energy      == get_current_energy(b)
        min_energy          == soc_energy(b, b.min_soc)
        available_energy    == current_energy - min_energy
        actual_discharge    == Min(energy_needed_kwh, available_energy)
        effective_discharge == actual_discharge
    IN  [ b   |-> IF actual_discharge > 0
                  THEN [b EXCEPT !.current_soc      = soc_of_energy(b, current_energy - actual_discharge),
                                 !.total_discharged = @ + effective_discharge,
                                 !.discharge_cycles = @ + 1]
                  ELSE b,
          ret |-> effective_discharge ]

\* Mutant of discharge: the SOC is lowered by the delivered amount, not the drawn one.
discharge_soc_by_delivered(b, energy_needed_kwh) ==
    LET current_energy      == get_current_energy(b)
        min_energy          == soc_energy(b, b.min_soc)
        available_energy    == current_energy - min_energy
        actual_discharge    == Min(energy_needed_kwh, available_energy)
        effective_discharge == MulEff(actual_discharge)
    IN  [ b   |-> IF actual_discharge > 0
                  THEN [b EXCEPT !.current_soc      = soc_of_energy(b, current_energy - effective_discharge),
                                 !.total_discharged = @ + effective_discharge,
                                 !.discharge_cycles = @ + 1]
                  ELSE b,
          ret |-> effective_discharge ]

\* Mutant of discharge: the drawn amount is returned, the delivered one counted.
discharge_returns_request(b, energy_needed_kwh) ==
    LET current_energy      == get_current_energy(b)
        min_energy          == soc_energy(b, b.min_soc)
        available_energy    == current_energy - min_energy
        actual_discharge    == Min(energy_needed_kwh, available_energy)
        effective_discharge == MulEff(actual_discharge)
    IN  [ b   |-> IF actual_discharge > 0
                  THEN [b EXCEPT !.current_soc      = soc_of_energy(b, current_energy - actual_discharge),
                                 !.total_discharged = @ + effective_discharge,
                                 !.discharge_cycles = @ + 1]
                  ELSE b,
          ret |-> actual_discharge ]

\* Mutant of discharge: the drawn amount is added to total_discharged.
discharge_counts_drawn(b, energy_needed_kwh) ==
    LET current_energy      == get_current_energy(b)
        min_energy          == soc_energy(b, b.min_soc)
        available_energy    == current_energy - min_energy
        actual_discharge    == Min(energy_needed_kwh, available_energy)
        effective_discharge == MulEff(actual_discharge)
    IN  [ b   |-> IF actual_discharge > 0
                  THEN [b EXCEPT !.current_soc      = soc_of_energy(b, current_energy - actual_discharge),
                                 !.total_discharged = @ + actual_discharge,
                                 !.discharge_cycles = @ + 1]
                  ELSE b,
          ret |-> effective_discharge ]

\* Battery.discharge: the battery after the call and the value returned
discharge(b, energy_needed_kwh) ==
    LET current_energy      == get_current_energy(b)
        min_energy          == soc_energy(b, b.min_soc)
        available_energy    == current_energy - min_energy
        actual_discharge    == Min(energy_needed_kwh, available_energy)
        effective_discharge == MulEff(actual_discharge)
    IN  [ b   |-> IF actual_discharge > 0
                  THEN [b EXCEPT !.current_soc      = soc_of_energy(b, current_energy - actual_discharge),
                                 !.total_discharged = @ + effective_discharge,
                                 !.discharge_cycles = @ + 1]
                  ELSE b,
          ret |-> effective_discharge ]

is_full(b) == b.current_soc >= b.max_soc
is_empty(b) == b.current_soc <= b.min_soc

\* available_space of charge: max_energy - current_energy
headroom(b) == soc_energy(b, b.max_soc) - get_current_energy(b)
\* available_energy of discharge: current_energy - min_energy
available(b) == get_current_energy(b) - soc_energy(b, b.min_soc)

\* ------------------------------------------------------------------------
\* components/grid.py
\* ------------------------------------------------------------------------
Grid ==
    [ export_limit   |-> GRID_EXPORT_LIMIT,
      import_cost    |-> GRID_IMPORT_COST,
      export_revenue |-> GRID_EXPORT_REVENUE,
      total_imported |-> 0,
      total_exported |-> 0,
      total_cost     |-> 0,
      total_revenue  |-> 0 ]

\* Mutant of import_energy: the import is capped like the export.
import_energy_capped(g, energy_kwh) ==
    IF energy_kwh <= 0
    THEN [ g |-> g, ret |-> 0 ]
    ELSE LET actual_import == Min(energy_kwh, g.export_limit)
         IN  [ g   |-> [g EXCEPT !.total_imported = @ + actual_import,
                                 !.total_cost     = @ + actual_import * g.import_cost],
               ret |-> actual_import ]

\* Mutant of import_energy: the cost is returned instead of the energy.
import_energy_returns_cost(g, energy_kwh) ==
    IF energy_kwh <= 0
    THEN [ g |-> g, ret |-> 0 ]
    ELSE [ g   |-> [g EXCEPT !.total_imported = @ + energy_kwh,
                             !.total_cost     = @ + energy_kwh * g.import_cost],
           ret |-> (energy_kwh * g.import_cost) \div PriceDen ]

\* Grid.import_energy
import_energy(g, energy_kwh) ==
    IF energy_kwh <= 0
    THEN [ g |-> g, ret |-> 0 ]
    ELSE [ g   |-> [g EXCEPT !.total_imported = @ + energy_kwh,
                             !.total_cost     = @ + energy_kwh * g.import_cost],
           ret |-> energy_kwh ]

\* Mutant of export_energy: no export limit.
export_energy_uncapped(g, energy_kwh) ==
    IF energy_kwh <= 0
    THEN [ g |-> g, ret |-> 0 ]
    ELSE [ g   |-> [g EXCEPT !.total_exported = @ + energy_kwh,
                             !.total_revenue  = @ + energy_kwh * g.export_revenue],
           ret |-> energy_kwh ]

\* Mutant of export_energy: the revenue is computed on the energy offered.
export_energy_revenue_on_request(g, energy_kwh) ==
    IF energy_kwh <= 0
    THEN [ g |-> g, ret |-> 0 ]
    ELSE LET actual_export == Min(energy_kwh, g.export_limit)
         IN  [ g   |-> [g EXCEPT !.total_exported = @ + actual_export,
                                 !.total_revenue  = @ + energy_kwh * g.export_revenue],
               ret |-> actual_export ]

\* Grid.export_energy
export_energy(g, energy_kwh) ==
    IF energy_kwh <= 0
    THEN [ g |-> g, ret |-> 0 ]
    ELSE LET actual_export == Min(energy_kwh, g.export_limit)
         IN  [ g   |-> [g EXCEPT !.total_exported = @ + actual_export,
                                 !.total_revenue  = @ + actual_export * g.export_revenue],
               ret |-> actual_export ]

get_net_cost(g) == g.total_cost - g.total_revenue

\* ------------------------------------------------------------------------
\* components/load.py
\* ------------------------------------------------------------------------
Load ==
    [ total_consumed    |-> 0,
      peak_demand       |-> 0,
      unmet_load_events |-> 0,
      total_unmet_load  |-> 0 ]

\* Load.consume
consume(l, energy_kwh) == [l EXCEPT !.total_consumed = @ + energy_kwh]

\* Load.record_unmet_load
record_unmet_load(l, unmet_kwh) ==
    IF unmet_kwh > 0
    THEN [l EXCEPT !.unmet_load_events = @ + 1,
                   !.total_unmet_load  = @ + unmet_kwh]
    ELSE l

\* ------------------------------------------------------------------------
\* simulation.py: the dispatch strategies
\* ------------------------------------------------------------------------
\* A call that a strategy skips returns nothing; the step's record holds 0.
NotCalledB(b) == [ b |-> b, ret |-> 0 ]
NotCalledG(g) == [ g |-> g, ret |-> 0 ]

\* What one strategy call did: the components after it, the exception it
\* ended with, and the step's transient quantities (flow).
StepResult(name, solar_kwh, load_kwh, b0, l0, bEnd, gEnd, lEnd, solar_to_load, chg, charge_arg, charge_called, dis, dis_b0, discharge_arg, discharge_called, imp, import_called, ex, export_arg, export_called, remaining_solar, remaining_load, exc) ==
    [ battery |-> bEnd,
      grid    |-> gEnd,
      load    |-> lEnd,
      raised  |-> exc,
      flow    |-> [ strategy           |-> name,
                    solar_kwh          |-> solar_kwh,
                    load_kwh           |-> load_kwh,
                    soc_before         |-> b0.current_soc,
                    consumed_before    |-> l0.total_consumed,
                    solar_to_load      |-> solar_to_load,
                    charge_called      |-> charge_called,
                    charge_arg         |-> charge_arg,
                    charged            |-> chg.ret,
                    space_after_charge |-> soc_energy(chg.b, chg.b.max_soc) - get_current_energy(chg.b),
                    discharge_called   |-> discharge_called,
                    discharge_arg      |-> discharge_arg,
                    battery_to_load    |-> dis.ret,
                    drawn              |-> get_current_energy(dis_b0) - get_current_energy(dis.b),
                    import_called      |-> import_called,
                    grid_import        |-> imp.ret,
                    export_called      |-> export_called,
                    export_arg         |-> export_arg,
                    exported           |-> ex.ret,
                    remaining_solar    |-> remaining_solar,
                    remaining_load     |-> remaining_load ] ]

\* `self.solar.total_generated += solar_kwh`: SolarPanel keeps its counter in the
\* private attribute __total_generated (_SolarPanel__total_generated), so reading
\* solar.total_generated raises and nothing is added.
SolarTotalGeneratedAdd == "AttributeError"

\* Mutant of _load_priority_strategy: the solar energy is exported before the
\* load is served.
_load_priority_export_first(b0, g0, l0, solar_kwh, load_kwh) ==
    LET ex  == IF solar_kwh > 0 THEN export_energy(g0, solar_kwh) ELSE NotCalledG(g0)
        rs0 == solar_kwh - ex.ret
        solar_to_load == Min(rs0, load_kwh)
        rs1 == rs0 - solar_to_load
        rl1 == load_kwh - solar_to_load
        dis == IF rl1 > 0 THEN discharge(b0, rl1) ELSE NotCalledB(b0)
        rl2 == rl1 - dis.ret
        imp == IF rl2 > 0 THEN import_energy(ex.g, rl2) ELSE NotCalledG(ex.g)
        rl3 == rl2 - imp.ret
        l1  == IF rl3 > 0 THEN record_unmet_load(l0, rl3) ELSE l0
        chg == IF rs1 > 0 THEN charge(dis.b, rs1) ELSE NotCalledB(dis.b)
        rs2 == rs1 - chg.ret
        l2  == consume(l1, load_kwh - rl3)
    IN  StepResult("LOAD_PRIORITY", solar_kwh, load_kwh, b0, l0, chg.b, imp.g, l2, solar_to_load,
                   chg, rs1, rs1 > 0, dis, b0, rl1, rl1 > 0, imp, rl2 > 0,
                   ex, solar_kwh, solar_kwh > 0, rs2, rl3, SolarTotalGeneratedAdd)

\* Mutant of _load_priority_strategy: the battery is charged with the whole
\* solar energy before the load is served.
_load_priority_charge_first(b0, g0, l0, solar_kwh, load_kwh) ==
    LET chg == IF solar_kwh > 0 THEN charge(b0, solar_kwh) ELSE NotCalledB(b0)
        rs0 == solar_kwh - chg.ret
        solar_to_load == Min(rs0, load_kwh)
        rs1 == rs0 - solar_to_load
        rl1 == load_kwh - solar_to_load
        dis == IF rl1 > 0 THEN discharge(chg.b, rl1) ELSE NotCalledB(chg.b)
        rl2 == rl1 - dis.ret
        imp == IF rl2 > 0 THEN import_energy(g0, rl2) ELSE NotCalledG(g0)
        rl3 == rl2 - imp.ret
        l1  == IF rl3 > 0 THEN record_unmet_load(l0, rl3) ELSE l0
        ex  == IF rs1 > 0 THEN export_energy(imp.g, rs1) ELSE NotCalledG(imp.g)
        rs3 == rs1 - ex.ret
        l2  == consume(l1, load_kwh - rl3)
    IN  StepResult("LOAD_PRIORITY", solar_kwh, load_kwh, b0, l0, dis.b, ex.g, l2, solar_to_load,
                   chg, solar_kwh, solar_kwh > 0, dis, chg.b, rl1, rl1 > 0, imp, rl2 > 0,
                   ex, rs1, rs1 > 0, rs3, rl3, SolarTotalGeneratedAdd)

\* GreenGridSimulation._load_priority_strategy
_load_priority_strategy(b0, g0, l0, solar_kwh, load_kwh) ==
    LET solar_to_load == Min(solar_kwh, load_kwh)
        rs1 == solar_kwh - solar_to_load
        rl1 == load_kwh - solar_to_load
        \* Step 2
        dis == IF rl1 > 0 THEN discharge(b0, rl1) ELSE NotCalledB(b0)
        rl2 == rl1 - dis.ret
        \* Step 3
        imp == IF rl2 > 0 THEN import_energy(g0, rl2) ELSE NotCalledG(g0)
        rl3 == rl2 - imp.ret
        l1  == IF rl3 > 0 THEN record_unmet_load(l0, rl3) ELSE l0
        \* Step 4
        chg == IF rs1 > 0 THEN charge(dis.b, rs1) ELSE NotCalledB(dis.b)
        rs2 == rs1 - chg.ret
        \* Step 5
        ex  == IF rs2 > 0 THEN export_energy(imp.g, rs2) ELSE NotCalledG(imp.g)
        rs3 == rs2 - ex.ret
        l2  == consume(l1, load_kwh - rl3)
    IN  StepResult("LOAD_PRIORITY", solar_kwh, load_kwh, b0, l0, chg.b, ex.g, l2, solar_to_load,
                   chg, rs1, rs1 > 0, dis, b0, rl1, rl1 > 0, imp, rl2 > 0,
                   ex, rs2, rs2 > 0, rs3, rl3, SolarTotalGeneratedAdd)

\* Mutant of _charge_priority_strategy: the load takes its whole demand from the
\* solar energy left by the charge, whatever is left.
_charge_priority_load_unbounded(b0, g0, l0, solar_kwh, load_kwh) ==
    LET chg == charge(b0, solar_kwh)
        rs1 == solar_kwh - chg.ret
        solar_to_load == load_kwh
        rs2 == rs1 - solar_to_load
        rl1 == load_kwh - solar_to_load
        dis == IF rl1 > 0 THEN discharge(chg.b, rl1) ELSE NotCalledB(chg.b)
        rl2 == rl1 - dis.ret
        imp == IF rl2 > 0 THEN import_energy(g0, rl2) ELSE NotCalledG(g0)
        rl3 == rl2 - imp.ret
        ex  == IF rs2 > 0 THEN export_energy(imp.g, rs2) ELSE NotCalledG(imp.g)
        l1  == consume(l0, load_kwh - rl3)
    IN  StepResult("CHARGE_PRIORITY", solar_kwh, load_kwh, b0, l0, dis.b, ex.g, l1, solar_to_load,
                   chg, solar_kwh, TRUE, dis, chg.b, rl1, rl1 > 0, imp, rl2 > 0,
                   ex, rs2, rs2 > 0, rs2, rl3, SolarTotalGeneratedAdd)

\* GreenGridSimulation._charge_priority_strategy
_charge_priority_strategy(b0, g0, l0, solar_kwh, load_kwh) ==
    LET \* Step 1
        chg == charge(b0, solar_kwh)
        rs1 == solar_kwh - chg.ret
        \* Step 2
        solar_to_load == Min(rs1, load_kwh)
        rs2 == rs1 - solar_to_load
        rl1 == load_kwh - solar_to_load
        \* Step 3
        dis == IF rl1 > 0 THEN discharge(chg.b, rl1) ELSE NotCalledB(chg.b)
        rl2 == rl1 - dis.ret
        \* Step 4
        imp == IF rl2 > 0 THEN import_energy(g0, rl2) ELSE NotCalledG(g0)
        rl3 == rl2 - imp.ret
        \* Step 5: the amount exported is not taken off remaining_solar
        ex  == IF rs2 > 0 THEN export_energy(imp.g, rs2) ELSE NotCalledG(imp.g)
        l1  == consume(l0, load_kwh - rl3)
        \* record_unmet_load stands after the statement that raises
    IN  StepResult("CHARGE_PRIORITY", solar_kwh, load_kwh, b0, l0, dis.b, ex.g, l1, solar_to_load,
                   chg, solar_kwh, TRUE, dis, chg.b, rl1, rl1 > 0, imp, rl2 > 0,
                   ex, rs2, rs2 > 0, rs2, rl3, SolarTotalGeneratedAdd)

\* Mutant of _produce_priority_strategy: the solar energy left at the end of the
\* step is exported by a second call.
_produce_priority_exports_leftover(b0, g0, l0, solar_kwh, load_kwh) ==
    LET ex  == export_energy(g0, solar_kwh)
        rs1 == solar_kwh - ex.ret
        chg == charge(b0, rs1)
        rs2 == rs1 - chg.ret
        solar_to_load == Min(rs2, load_kwh)
        rl1 == load_kwh - solar_to_load
        dis == IF rl1 > 0 THEN discharge(chg.b, rl1) ELSE NotCalledB(chg.b)
        rl2 == rl1 - dis.ret
        imp == IF rl2 > 0 THEN import_energy(ex.g, rl2) ELSE NotCalledG(ex.g)
        rl3 == rl2 - imp.ret
        ex2 == export_energy(imp.g, rs2 - solar_to_load)
        both == [ g |-> ex2.g, ret |-> ex.ret + ex2.ret ]
        l1  == consume(l0, load_kwh - rl3)
    IN  StepResult("PRODUCE_PRIORITY", solar_kwh, load_kwh, b0, l0, dis.b, ex2.g, l1, solar_to_load,
                   chg, rs1, TRUE, dis, chg.b, rl1, rl1 > 0, imp, rl2 > 0,
                   both, solar_kwh, TRUE, rs2, rl3, SolarTotalGeneratedAdd)

\* Mutant of _produce_priority_strategy: the battery is charged before the export.
_produce_priority_charge_first(b0, g0, l0, solar_kwh, load_kwh) ==
    LET chg == charge(b0, solar_kwh)
        rs1 == solar_kwh - chg.ret
        ex  == export_energy(g0, rs1)
        rs2 == rs1 - ex.ret
        solar_to_load == Min(rs2, load_kwh)
        rl1 == load_kwh - solar_to_load
        dis == IF rl1 > 0 THEN discharge(chg.b, rl1) ELSE NotCalledB(chg.b)
        rl2 == rl1 - dis.ret
        imp == IF rl2 > 0 THEN import_energy(ex.g, rl2) ELSE NotCalledG(ex.g)
        rl3 == rl2 - imp.ret
        l1  == consume(l0, load_kwh - rl3)
    IN  StepResult("PRODUCE_PRIORITY", solar_kwh, load_kwh, b0, l0, dis.b, imp.g, l1, solar_to_load,
                   chg, solar_kwh, TRUE, dis, chg.b, rl1, rl1 > 0, imp, rl2 > 0,
                   ex, rs1, TRUE, rs2, rl3, SolarTotalGeneratedAdd)

\* GreenGridSimulation._produce_priority_strategy
_produce_priority_strategy(b0, g0, l0, solar_kwh, load_kwh) ==
    LET \* Step 1
        ex  == export_energy(g0, solar_kwh)
        rs1 == solar_kwh - ex.ret
        \* Step 2
        chg == charge(b0, rs1)
        rs2 == rs1 - chg.ret
        \* Step 3: the solar given to the load is not taken off remaining_solar
        solar_to_load == Min(rs2, load_kwh)
        rl1 == load_kwh - solar_to_load
        \* Step 4
        dis == IF rl1 > 0 THEN discharge(chg.b, rl1) ELSE NotCalledB(chg.b)
        rl2 == rl1 - dis.ret
        \* Step 5
        imp == IF rl2 > 0 THEN import_energy(ex.g, rl2) ELSE NotCalledG(ex.g)
        rl3 == rl2 - imp.ret
        l1  == consume(l0, load_kwh - rl3)
        \* record_unmet_load stands after the statement that raises
    IN  StepResult("PRODUCE_PRIORITY", solar_kwh, load_kwh, b0, l0, dis.b, imp.g, l1, solar_to_load,
                   chg, rs1, TRUE, dis, chg.b, rl1, rl1 > 0, imp, rl2 > 0,
                   ex, solar_kwh, TRUE, rs2, rl3, SolarTotalGeneratedAdd)

\* GreenGridSimulation.manage_energy_flow
manage_energy_flow(s, b0, g0, l0, solar_kwh, load_kwh) ==
    IF s = "LOAD_PRIORITY" THEN _load_priority_strategy(b0, g0, l0, solar_kwh, load_kwh)
    ELSE IF s = "CHARGE_PRIORITY" THEN _charge_priority_strategy(b0, g0, l0, solar_kwh, load_kwh)
    ELSE IF s = "PRODUCE_PRIORITY" THEN _produce_priority_strategy(b0, g0, l0, solar_kwh, load_kwh)
    ELSE _load_priority_strategy(b0, g0, l0, solar_kwh, load_kwh)

\* ------------------------------------------------------------------------
\* components/inverter.py
\* ------------------------------------------------------------------------
Inverter ==
    [ max_output             |-> INVERTER_MAX_OUTPUT,
      min_fail_duration      |-> INVERTER_MIN_FAILURE_HOURS,
      max_fail_duration      |-> INVERTER_MAX_FAILURE_HOURS,
      is_operational         |-> TRUE,
      failure_time_remaining |-> 0,
      total_failures         |-> 0,
      total_downtime_hours   |-> 0 ]

\* Inverter.__inverter_fails: `fails` is the outcome of random.random() < fail_rate,
\* `duration` the outcome of random.randint(min_fail_duration, max_fail_duration)
inverter_fails(fails, duration) ==
    [ failed |-> fails, duration |-> IF fails THEN duration ELSE 0 ]

\* Mutant of __update_failure: every change of state counts as a failure.
update_failure_counts_recovery(inv, duration_hours) ==
    LET flipped == ~inv.is_operational
    IN  [inv EXCEPT !.is_operational         = flipped,
                    !.failure_time_remaining = duration_hours,
                    !.total_downtime_hours   = @ + duration_hours,
                    !.total_failures         = @ + 1]

\* Inverter.__update_failure
update_failure(inv, duration_hours) ==
    LET flipped == ~inv.is_operational
    IN  [inv EXCEPT !.is_operational         = flipped,
                    !.failure_time_remaining = duration_hours,
                    !.total_downtime_hours   = @ + duration_hours,
                    !.total_failures         = IF ~flipped THEN @ + 1 ELSE @]

\* Mutant of update: the inverter recovers only once the remaining time is below 0.
update_late_recovery(inv, time_step_hours, trigger, fails, duration) ==
    IF ~inv.is_operational
    THEN LET waited == [inv EXCEPT !.failure_time_remaining = @ - time_step_hours]
         IN  IF waited.failure_time_remaining < 0 THEN update_failure(waited, 0) ELSE waited
    ELSE IF trigger
         THEN LET r == inverter_fails(fails, duration)
              IN  IF r.failed THEN update_failure(inv, r.duration) ELSE inv
         ELSE inv

\* Inverter.update: `trigger` is the outcome of random.random() < step_failure_prob
update(inv, time_step_hours, trigger, fails, duration) ==
    IF ~inv.is_operational
    THEN LET waited == [inv EXCEPT !.failure_time_remaining = @ - time_step_hours]
         IN  IF waited.failure_time_remaining <= 0 THEN update_failure(waited, 0) ELSE waited
    ELSE IF trigger
         THEN LET r == inverter_fails(fails, duration)
              IN  IF r.failed THEN update_failure(inv, r.duration) ELSE inv
         ELSE inv

\* The random draws one update call makes
update_draws(inv, trigger) ==
    IF ~inv.is_operational THEN 0 ELSE IF trigger THEN 3 ELSE 1

\* ------------------------------------------------------------------------
\* components/solar_panel.py
\* ------------------------------------------------------------------------
SolarPanel ==
    [ peak_power      |-> SOLAR_PEAK_POWER,
      total_generated |-> 0,
      total_clipped   |-> 0 ]

\* math.sin(hour_of_day * (math.pi / 12)) for hour_of_day = 0 .. 23, in
\* ten-thousandths, rounded.  (In floating point sin(pi) is 1.2e-16, far below
\* one energy unit.)
SinTable ==
    << 0, 2588, 5000, 7071, 8660, 9659, 10000, 9659, 8660, 7071, 5000, 2588,
       0, 0 - 2588, 0 - 5000, 0 - 7071, 0 - 8660, 0 - 9659, 0 - 10000,
       0 - 9659, 0 - 8660, 0 - 7071, 0 - 5000, 0 - 2588 >>

\* SolarPanel.__generate; cloud_coverage is given in percent
generate(sp, hour_of_day, cloud_coverage) ==
    LET base_generation == Max(((sp.peak_power \div 100) * SinTable[hour_of_day + 1]) \div 100, 0)
    IN  (base_generation * (100 - cloud_coverage)) \div 100

\* Mutant of generate_energy: the raw generation is counted as generated.
generate_energy_counts_raw(sp, hour_of_day, cloud_coverage, inverter_operational, limit) ==
    IF ~inverter_operational
    THEN [ sp |-> sp, ret |-> 0 ]
    ELSE LET energy == generate(sp, hour_of_day, cloud_coverage)
         IN  [ sp  |-> [sp EXCEPT !.total_clipped   = @ + Max(energy - limit, 0),
                                  !.total_generated = @ + energy],
               ret |-> Min(energy, limit) ]

\* SolarPanel.generate_energy: the panel after the call and the value returned
generate_energy(sp, hour_of_day, cloud_coverage, inverter_operational, limit) ==
    IF ~inverter_operational
    THEN [ sp |-> sp, ret |-> 0 ]
    ELSE LET energy == generate(sp, hour_of_day, cloud_coverage)
         IN  [ sp  |-> [sp EXCEPT !.total_clipped   = @ + Max(energy - limit, 0),
                                  !.total_generated = @ + Min(energy, limit)],
               ret |-> Min(energy, limit) ]

\* ------------------------------------------------------------------------
\* Construction from a configuration: the values config.py could hold
\* ------------------------------------------------------------------------
\* config.py as it stands
Config ==
    [ capacity     |-> BATTERY_CAPACITY,
      min_soc      |-> BATTERY_MIN_SOC,
      max_soc      |-> BATTERY_MAX_SOC,
      initial_soc  |-> BATTERY_INITIAL_SOC,
      export_limit |-> GRID_EXPORT_LIMIT,
      max_output   |-> INVERTER_MAX_OUTPUT ]

\* Battery.__init__ reading cfg: no value is checked
BatteryOf(cfg, count) ==
    [ capacity         |-> cfg.capacity * count,
      min_soc          |-> Pct(cfg.min_soc),
      max_soc          |-> Pct(cfg.max_soc),
      current_soc      |-> Pct(cfg.initial_soc),
      total_charged    |-> 0,
      total_discharged |-> 0,
      charge_cycles    |-> 0,
      discharge_cycles |-> 0 ]

\* Grid.__init__ reading cfg: no value is checked
GridOf(cfg) == [Grid EXCEPT !.export_limit = cfg.export_limit]

\* Inverter.__init__ with the defaults read from cfg: no value is checked
InverterOf(cfg) == [Inverter EXCEPT !.max_output = cfg.max_output]

\* ------------------------------------------------------------------------
\* State
\* ------------------------------------------------------------------------
VARIABLES
    battery,    \* GreenGridSimulation.battery
    grid,       \* GreenGridSimulation.grid
    load,       \* GreenGridSimulation.load
    inverter,   \* GreenGridSimulation.inverter
    strategy,   \* config.ENERGY_MANAGEMENT_STRATEGY
    raised,     \* the exception the last call ended with, or "none"
    flow,       \* the transient quantities of the last dispatch step
    call,       \* the last direct call on a component: operation, argument, result, state before
    prevCall,   \* the direct call before it
    steps,      \* calls made so far on the components and the dispatcher
    outage,     \* the inverter's last update call and the outage it belongs to
    solar,      \* GreenGridSimulation.solar
    sim,        \* the simulate() process: where it stands, its hour, its calls, its log
    hist        \* history: the battery's initial energy, the calls that moved energy,
                \* the sum of the outputs generate_energy returned

vars == << battery, grid, load, inverter, strategy, raised, flow, call, prevCall, steps, outage, solar, sim, hist >>

\* Configured initial states of charge (percent), all within [min_soc, max_soc]
InitialSocChoices == {BATTERY_MIN_SOC, BATTERY_INITIAL_SOC, 99}

\* Arguments of the direct calls (energy units)
ChargeArgs    == {0 - Unit, 0, (14 * Unit) \div 100, Unit, 10 * Unit}
DischargeArgs == {0 - Unit, 0, Unit, 10 * Unit}
ImportArgs    == {0 - Unit, 0, Unit, 25 * Unit}
ExportArgs    == {0 - Unit, 0, Unit, GRID_EXPORT_LIMIT, 25 * Unit}
\* Energies of one dispatch step: solar_kwh and load_kwh
SolarChoices  == {0, Unit, INVERTER_MAX_OUTPUT, 25 * Unit}
LoadChoices   == {0, Unit \div 2, 2 * Unit}
\* time_step_hours passed to Inverter.update
TimeStepChoices == {1, 2}

\* hour_of_day, cloud_coverage (percent) and limit passed to generate_energy
HourChoices  == {2, 6, 15}
CloudChoices == {0, 50}
LimitChoices == {2 * Unit, INVERTER_MAX_OUTPUT}
\* Arguments of the direct calls on the load (energy units)
LoadArgs == {0 - Unit, 0, Unit, 2 * Unit}
\* Values config.py could hold: those it holds, and some outside the valid ranges
CapacityChoices    == {BATTERY_CAPACITY, 0 - BATTERY_CAPACITY}
MinSocChoices      == {BATTERY_MIN_SOC, 60}
MaxSocChoices      == {BATTERY_MAX_SOC, 40}
ConfigSocChoices   == {0, BATTERY_INITIAL_SOC, 100, 120}
ExportLimitChoices == {GRID_EXPORT_LIMIT, 0 - GRID_EXPORT_LIMIT}
MaxOutputChoices   == {INVERTER_MAX_OUTPUT, 0 - INVERTER_MAX_OUTPUT}

\* GreenGridSimulation.__init__: time_step_hours and total_hours
time_step_hours == TIME_STEP_MINUTES \div 60
total_hours == SIMULATION_DAYS * 24

NoCall == [ op |-> "none", arg |-> 0, ret |-> 0 ]
NoFlow == [ strategy |-> "none" ]
NoOutage ==
    [ R |-> 0, elapsed |-> 0, dt |-> 0, draws |-> 0, was_operational |-> TRUE,
      before |-> Inverter, failures_taken |-> 0, downtime_drawn |-> 0 ]
\* simulate() not yet started: current_hour = 0, data_log = []
NoSim == [ pc |-> "start", current_hour |-> 0, calls |-> << >>, data_log |-> << >> ]
NoHist(b) ==
    [ initial_energy    |-> get_current_energy(b),
      charges_moved     |-> 0,
      discharges_moved  |-> 0,
      generated_sum     |-> 0 ]

Init ==
    /\ \E s0 \in InitialSocChoices : battery = Battery(BATTERY_COUNT, s0)
    /\ grid = Grid
    /\ load = Load
    /\ inverter = Inverter
    /\ strategy \in StrategyValues
    /\ raised = "none"
    /\ flow = NoFlow
    /\ call = NoCall
    /\ prevCall = NoCall
    /\ steps = 0
    /\ outage = NoOutage
    /\ solar = SolarPanel
    /\ sim = NoSim
    /\ hist = NoHist(battery)

Called(op, arg, ret) ==
    [ op |-> op, arg |-> arg, ret |-> ret, battery0 |-> battery, grid0 |-> grid,
      load0 |-> load, solar0 |-> solar ]

\* 1 if the stored energy of the battery went from e0 up to e1, else 0
MovedUp(e0, e1) == IF e1 > e0 THEN 1 ELSE 0

\* ------------------------------------------------------------------------
\* Direct calls on the components
\* ------------------------------------------------------------------------
CallCharge ==
    /\ steps < MaxSteps
    /\ \E x \in ChargeArgs :
         LET r == charge(battery, x)
         IN  /\ battery' = r.b
             /\ call' = Called("charge", x, r.ret)
             /\ hist' = [hist EXCEPT !.charges_moved =
                            @ + MovedUp(get_current_energy(battery), get_current_energy(r.b))]
    /\ prevCall' = call
    /\ raised' = "none"
    /\ steps' = steps + 1
    /\ UNCHANGED << grid, load, inverter, strategy, flow, outage, solar, sim >>

\* The amount asked for is arbitrary, or what the charge just before stored.
CallDischarge ==
    /\ steps < MaxSteps
    /\ \E x \in DischargeArgs \cup (IF call.op = "charge" THEN {call.ret} ELSE {}) :
         LET r == discharge(battery, x)
         IN  /\ battery' = r.b
             /\ call' = Called("discharge", x, r.ret)
             /\ hist' = [hist EXCEPT !.discharges_moved =
                            @ + MovedUp(get_current_energy(r.b), get_current_energy(battery))]
    /\ prevCall' = call
    /\ raised' = "none"
    /\ steps' = steps + 1
    /\ UNCHANGED << grid, load, inverter, strategy, flow, outage, solar, sim >>

CallImport ==
    /\ steps < MaxSteps
    /\ \E x \in ImportArgs :
         LET r == import_energy(grid, x)
         IN  /\ grid' = r.g
             /\ call' = Called("import_energy", x, r.ret)
    /\ prevCall' = call
    /\ raised' = "none"
    /\ steps' = steps + 1
    /\ UNCHANGED << battery, load, inverter, strategy, flow, outage, solar, sim, hist >>

CallExport ==
    /\ steps < MaxSteps
    /\ \E x \in ExportArgs :
         LET r == export_energy(grid, x)
         IN  /\ grid' = r.g
             /\ call' = Called("export_energy", x, r.ret)
    /\ prevCall' = call
    /\ raised' = "none"
    /\ steps' = steps + 1
    /\ UNCHANGED << battery, load, inverter, strategy, flow, outage, solar, sim, hist >>

\* Grid.get_net_cost takes no argument: the call's record holds 0 for it
CallGetNetCost ==
    /\ steps < MaxSteps
    /\ call' = Called("get_net_cost", 0, get_net_cost(grid))
    /\ prevCall' = call
    /\ raised' = "none"
    /\ steps' = steps + 1
    /\ UNCHANGED << battery, grid, load, inverter, strategy, flow, outage, solar, sim, hist >>

\* Load.consume returns nothing: the call's record holds 0
CallConsume ==
    /\ steps < MaxSteps
    /\ \E x \in LoadArgs :
         /\ load' = consume(load, x)
         /\ call' = Called("consume", x, 0)
    /\ prevCall' = call
    /\ raised' = "none"
    /\ steps' = steps + 1
    /\ UNCHANGED << battery, grid, inverter, strategy, flow, outage, solar, sim, hist >>

\* Load.record_unmet_load returns nothing: the call's record holds 0
CallRecordUnmet ==
    /\ steps < MaxSteps
    /\ \E x \in LoadArgs :
         /\ load' = record_unmet_load(load, x)
         /\ call' = Called("record_unmet_load", x, 0)
    /\ prevCall' = call
    /\ raised' = "none"
    /\ steps' = steps + 1
    /\ UNCHANGED << battery, grid, inverter, strategy, flow, outage, solar, sim, hist >>

\* SolarPanel.generate_energy; the call's record also holds the raw generation
\* of that hour, the limit and the inverter state passed
CallGenerateEnergy ==
    /\ steps < MaxSteps
    /\ \E hour_of_day \in HourChoices, cloud_coverage \in CloudChoices :
         \E inverter_operational \in BOOLEAN, limit \in LimitChoices :
           LET r == generate_energy(solar, hour_of_day, cloud_coverage, inverter_operational, limit)
           IN  /\ solar' = r.sp
               /\ call' = [ op |-> "generate_energy",
                            arg |-> generate(solar, hour_of_day, cloud_coverage),
                            ret |-> r.ret,
                            battery0 |-> battery, grid0 |-> grid, load0 |-> load, solar0 |-> solar,
                            limit |-> limit,
                            inverter_operational |-> inverter_operational ]
               /\ hist' = [hist EXCEPT !.generated_sum = @ + r.ret]
    /\ prevCall' = call
    /\ raised' = "none"
    /\ steps' = steps + 1
    /\ UNCHANGED << battery, grid, load, inverter, strategy, flow, outage, sim >>

\* ------------------------------------------------------------------------
\* One dispatch step: manage_energy_flow(solar_kwh, load_kwh)
\* ------------------------------------------------------------------------
Dispatch ==
    /\ steps < MaxSteps
    /\ \E solar_kwh \in SolarChoices, load_kwh \in LoadChoices :
         LET r == manage_energy_flow(strategy, battery, grid, load, solar_kwh, load_kwh)
         IN  /\ battery' = r.battery
             /\ grid' = r.grid
             /\ load' = r.load
             /\ raised' = r.raised
             /\ flow' = r.flow
    /\ hist' = [hist EXCEPT
                   !.charges_moved = @ + (IF flow'.charge_called /\ flow'.charged > 0 THEN 1 ELSE 0),
                   !.discharges_moved = @ + (IF flow'.drawn > 0 THEN 1 ELSE 0)]
    /\ call' = NoCall
    /\ prevCall' = NoCall
    /\ steps' = steps + 1
    /\ UNCHANGED << inverter, strategy, outage, solar, sim >>

\* ------------------------------------------------------------------------
\* Inverter.update(time_step_hours)
\* ------------------------------------------------------------------------
\* What one update call did to inverter inv, giving inv2: the outage it belongs
\* to, the state before it, and the Operational -> Failed transitions so far with
\* the durations they drew.
OutageAfter(o, inv, inv2, dt, trigger) ==
    LET failed_now == inv.is_operational /\ ~inv2.is_operational
    IN  [ R               |-> IF inv.is_operational THEN inv2.failure_time_remaining ELSE o.R,
          elapsed         |-> IF inv.is_operational THEN 0 ELSE o.elapsed + dt,
          dt              |-> dt,
          draws           |-> update_draws(inv, trigger),
          was_operational |-> inv.is_operational,
          before          |-> inv,
          failures_taken  |-> o.failures_taken + (IF failed_now THEN 1 ELSE 0),
          downtime_drawn  |-> o.downtime_drawn + (IF failed_now THEN inv2.failure_time_remaining ELSE 0) ]

\* The draws are those the code makes: none while Failed, the step draw while
\* Operational, and the two of __inverter_fails once the step draw triggers (the
\* duration drawn is discarded when `fails` is false).  A failure is drawn only
\* while fewer than MaxFailures have happened.
InverterUpdate ==
    \E dt \in TimeStepChoices :
      \E trigger \in (IF inverter.is_operational THEN BOOLEAN ELSE {FALSE}) :
        \E fails \in (IF trigger /\ inverter.total_failures < MaxFailures THEN BOOLEAN ELSE {FALSE}) :
          \E duration \in (IF fails
                           THEN inverter.min_fail_duration .. inverter.max_fail_duration
                           ELSE {inverter.min_fail_duration}) :
            /\ inverter' = update(inverter, dt, trigger, fails, duration)
            /\ outage' = OutageAfter(outage, inverter, inverter', dt, trigger)
            /\ UNCHANGED << battery, grid, load, strategy, raised, flow, call, prevCall, steps, solar, sim, hist >>

\* ------------------------------------------------------------------------
\* GreenGridSimulation.__init__ under a configuration
\* ------------------------------------------------------------------------
Construct ==
    /\ \E capacity \in CapacityChoices, min_soc \in MinSocChoices, max_soc \in MaxSocChoices :
         \E initial_soc \in ConfigSocChoices, export_limit \in ExportLimitChoices, max_output \in MaxOutputChoices :
           LET cfg == [ capacity |-> capacity, min_soc |-> min_soc, max_soc |-> max_soc,
                        initial_soc |-> initial_soc, export_limit |-> export_limit,
                        max_output |-> max_output ]
           IN  /\ battery' = BatteryOf(cfg, BATTERY_COUNT)
               /\ grid' = GridOf(cfg)
               /\ inverter' = InverterOf(cfg)
               /\ hist' = NoHist(BatteryOf(cfg, BATTERY_COUNT))
    /\ load' = Load
    /\ solar' = SolarPanel
    /\ sim' = NoSim
    /\ raised' = "none"
    /\ flow' = NoFlow
    /\ call' = NoCall
    /\ prevCall' = NoCall
    /\ steps' = 0
    /\ outage' = [NoOutage EXCEPT !.before = inverter']
    /\ UNCHANGED strategy

\* ------------------------------------------------------------------------
\* GreenGridSimulation.simulate
\* ------------------------------------------------------------------------
\* `self.solar.generate(...)`: SolarPanel has no attribute generate (its methods
\* are generate_energy, get_status and the private __generate), so the call raises.
SolarGenerate == "AttributeError"

\* The process from its start to the statement that ends it.  The first
\* iteration (current_hour = 0 < total_hours, day 1, no new cloud coverage) calls
\* Inverter.update(time_step_hours) and then raises at self.solar.generate: no
\* later statement of the loop runs, nothing is logged and the process is over.
Simulate ==
    /\ sim.pc = "start"
    /\ sim.current_hour < total_hours
    /\ \E trigger \in BOOLEAN :
        \E fails \in (IF trigger /\ inverter.total_failures < MaxFailures THEN BOOLEAN ELSE {FALSE}) :
          \E duration \in (IF fails
                           THEN inverter.min_fail_duration .. inverter.max_fail_duration
                           ELSE {inverter.min_fail_duration}) :
            /\ inverter' = update(inverter, time_step_hours, trigger, fails, duration)
            /\ outage' = OutageAfter(outage, inverter, inverter', time_step_hours, trigger)
    /\ raised' = SolarGenerate
    /\ sim' = [sim EXCEPT !.pc = "raised", !.calls = << "Inverter.update" >>]
    /\ UNCHANGED << battery, grid, load, strategy, flow, call, prevCall, steps, solar, hist >>

\* ------------------------------------------------------------------------
\* Specifications
\* ------------------------------------------------------------------------
\* Every user of the battery: its direct calls and the dispatcher, in any order
Next == CallCharge \/ CallDischarge \/ Dispatch
Spec == Init /\ [][Next]_vars

\* The battery alone
NextBattery == CallCharge \/ CallDischarge
SpecBattery == Init /\ [][NextBattery]_vars

\* The grid alone
NextGrid == CallImport \/ CallExport
SpecGrid == Init /\ [][NextGrid]_vars

\* The dispatcher alone
NextDispatch == Dispatch
SpecDispatch == Init /\ [][NextDispatch]_vars

\* The inverter alone, in the simulation as configured in config.py
InitConfigured ==
    /\ Init
    /\ battery = Battery(BATTERY_COUNT, BATTERY_INITIAL_SOC)
    /\ strategy = ENERGY_MANAGEMENT_STRATEGY
NextInverter == InverterUpdate
SpecInverter == InitConfigured /\ [][NextInverter]_vars

\* Battery, grid and load called directly, in any order
NextComponents ==
    CallCharge \/ CallDischarge \/ CallImport \/ CallExport \/ CallConsume \/ CallRecordUnmet
SpecComponents == InitConfigured /\ [][NextComponents]_vars

\* The grid with its accounts read, as configured in config.py
NextGridAccounts == CallImport \/ CallExport \/ CallGetNetCost
SpecGridAccounts == InitConfigured /\ [][NextGridAccounts]_vars

\* The simulation constructed again and again, under any configuration
NextConstruct == Construct
SpecConstruct == InitConfigured /\ [][NextConstruct]_vars

\* The solar panel and the dispatcher called in any order
NextGeneration == CallGenerateEnergy \/ Dispatch
SpecGeneration == InitConfigured /\ [][NextGeneration]_vars

\* The simulation run: GreenGridSimulation.run starts the simulate process
NextSimulate == Simulate
SpecSimulate == Init /\ [][NextSimulate]_vars

\* ------------------------------------------------------------------------
\* Soundness of the fixed-point arithmetic: every stored energy, and so every
\* amount multiplied by the efficiency, is a multiple of EffDen.
\* ------------------------------------------------------------------------
ExactModel ==
    /\ get_current_energy(battery) % EffDen = 0
    /\ soc_of_energy(battery, get_current_energy(battery)) = battery.current_soc
    /\ call.arg % EffDen = 0
    /\ (flow.strategy # "none") =>
          /\ flow.charge_arg % EffDen = 0
          /\ flow.discharge_arg % EffDen = 0

TypeOK ==
    /\ steps \in 0 .. MaxSteps
    /\ strategy \in StrategyValues
    /\ raised \in {"none", "AttributeError"}

\* ------------------------------------------------------------------------
\* Properties of the battery
\* ------------------------------------------------------------------------
\* C1: from an initial SOC within [min_soc, max_soc], after any sequence of charge
\* and discharge calls with arbitrary arguments, made directly or by the dispatch
\* strategies, min_soc <= current_soc <= max_soc.
C1_SocWithinBounds ==
    /\ battery.min_soc <= battery.current_soc
    /\ battery.current_soc <= battery.max_soc

\* C1 witness: the battery was charged and discharged, directly and by a dispatch
\* step, and ended saturated at one of its limits.
C1_Witness ==
    /\ battery.charge_cycles > 0
    /\ battery.discharge_cycles > 0
    /\ flow.strategy # "none"
    /\ call.op # "none"
    /\ (is_full(battery) \/ is_empty(battery))

\* C2 as stated: charge(x) with x above the headroom returns headroom * efficiency
\* and leaves the SOC at max_soc.
C2_Original ==
    (call.op = "charge" /\ call.arg > headroom(call.battery0)) =>
        /\ call.ret = MulEff(headroom(call.battery0))
        /\ battery.current_soc = battery.max_soc

\* C2 amended: charge(x) with x * efficiency at least the headroom returns the
\* headroom itself (the energy stored) and leaves the SOC at max_soc.
C2_ChargeSaturates ==
    (call.op = "charge" /\ MulEff(call.arg) >= headroom(call.battery0)) =>
        /\ call.ret = headroom(call.battery0)
        /\ battery.current_soc = battery.max_soc
        /\ battery.total_charged = call.battery0.total_charged + headroom(call.battery0)

\* C2 witness: a charge that saturates a battery that had room left.
C2_Witness ==
    /\ call.op = "charge"
    /\ MulEff(call.arg) >= headroom(call.battery0)
    /\ headroom(call.battery0) > 0
    /\ call.ret > 0

\* C3: discharge(x) with x above the available energy returns
\* available_energy * efficiency and leaves the SOC at min_soc, never below.
C3_DischargeSaturates ==
    (call.op = "discharge" /\ call.arg > available(call.battery0)) =>
        /\ call.ret = MulEff(available(call.battery0))
        /\ battery.current_soc = battery.min_soc

\* C3 witness: a discharge that asks for more than a non-empty battery holds.
C3_Witness ==
    /\ call.op = "discharge"
    /\ call.arg > available(call.battery0)
    /\ available(call.battery0) > 0
    /\ call.ret > 0

\* A charge of x > 0 that fits in the headroom after efficiency, followed at once
\* by a discharge of the amount it stored.
RoundTrip ==
    /\ prevCall.op = "charge"
    /\ prevCall.arg > 0
    /\ MulEff(prevCall.arg) <= headroom(prevCall.battery0)
    /\ call.op = "discharge"
    /\ call.arg = prevCall.ret

\* C4: in a round trip the charge stores x * efficiency, the discharge returns
\* x * efficiency * efficiency and restores the SOC held before the charge; the
\* energy returned is below x whenever efficiency < 1.
C4_RoundTrip ==
    RoundTrip =>
        /\ prevCall.ret = MulEff(prevCall.arg)
        /\ call.ret = MulEff(MulEff(prevCall.arg))
        /\ battery.current_soc = prevCall.battery0.current_soc
        /\ (EffNum < EffDen => call.ret < prevCall.arg)

\* C4 witness: a round trip has been made.
C4_Witness ==
    /\ RoundTrip
    /\ call.ret > 0

\* ------------------------------------------------------------------------
\* Properties of the dispatch strategies
\* ------------------------------------------------------------------------
Stepped == flow.strategy # "none"

\* The quantities of the energy balance of one step
load_served == flow.load_kwh - flow.remaining_load
\* energy taken out of the store, before the discharge loss
battery_discharged == flow.drawn
\* energy put into the store, after the charge loss
battery_charged == flow.charged
\* what the discharge lost between the store and the load
discharge_loss == flow.drawn - flow.battery_to_load
\* solar offered to the grid above the export limit, discarded by export_energy
clipping_loss == IF flow.export_called THEN flow.export_arg - flow.exported ELSE 0

\* C5 as stated: in every step of each strategy, with non-negative solar_kwh and
\* load_kwh, solar + battery_discharged + grid_imported = load_served +
\* battery_charged + grid_exported + battery_loss + clipping_loss, where the
\* battery's loss is what its discharge lost plus what its charge lost: storing
\* battery_charged takes battery_charged / efficiency, so the charge loses
\* battery_charged * (1 - efficiency) / efficiency.  Both sides are multiplied
\* by EffNum to stay in the integers.
C5_EnergyBalance ==
    Stepped =>
        EffNum * (flow.solar_kwh + battery_discharged + flow.grid_import)
          = EffNum * (load_served + battery_charged + flow.exported
                      + discharge_loss + clipping_loss)
            + (EffDen - EffNum) * battery_charged

\* C6 as stated: under CHARGE_PRIORITY, in every step where the battery still has
\* headroom after the charge step, no solar goes directly to the load, which is
\* served by battery discharge and grid import only.
C6_NoSolarToLoadWithHeadroom ==
    (flow.strategy = "CHARGE_PRIORITY" /\ flow.space_after_charge > 0) =>
        /\ flow.solar_to_load = 0
        /\ load_served = flow.battery_to_load + flow.grid_import

\* C10: after any sequence of dispatch steps with non-negative solar_kwh and
\* load_kwh, remaining_load is 0 at the end of the step, no unmet load was ever
\* recorded, and total_consumed grew by the step's whole load_kwh.
C10_NoUnmetLoad ==
    Stepped =>
        /\ flow.remaining_load = 0
        /\ load.unmet_load_events = 0
        /\ load.total_unmet_load = 0
        /\ load.total_consumed = flow.consumed_before + flow.load_kwh

\* C10 witness: a step, not the first to consume, whose load needed the battery
\* and the grid.
C10_Witness ==
    /\ Stepped
    /\ flow.consumed_before > 0
    /\ flow.battery_to_load > 0
    /\ flow.grid_import > 0
    /\ load.total_consumed = flow.consumed_before + flow.load_kwh

\* ------------------------------------------------------------------------
\* Properties of the grid
\* ------------------------------------------------------------------------
\* C7: export_energy(x) with x above export_limit returns export_limit, adds
\* export_limit to total_exported and export_limit * export_revenue to
\* total_revenue; the surplus is added to no counter.
C7_ExportCapped ==
    (call.op = "export_energy" /\ call.arg > call.grid0.export_limit) =>
        /\ call.ret = grid.export_limit
        /\ grid.total_exported = call.grid0.total_exported + grid.export_limit
        /\ grid.total_revenue = call.grid0.total_revenue + grid.export_limit * grid.export_revenue
        /\ grid.total_imported = call.grid0.total_imported
        /\ grid.total_cost = call.grid0.total_cost

\* C7 witness: an export above the limit, on a grid that has exported before.
C7_Witness ==
    /\ call.op = "export_energy"
    /\ call.arg > call.grid0.export_limit
    /\ call.grid0.total_exported > 0
    /\ call.ret = grid.export_limit

\* C8: import_energy(x) with x > 0 returns x, adds x to total_imported and
\* x * import_cost to total_cost, whatever the state of the grid.
C8_ImportUncapped ==
    (call.op = "import_energy" /\ call.arg > 0) =>
        /\ call.ret = call.arg
        /\ grid.total_imported = call.grid0.total_imported + call.arg
        /\ grid.total_cost = call.grid0.total_cost + call.arg * grid.import_cost

\* C8 witness: an import above the export limit, on a grid that has imported and
\* exported before.
C8_Witness ==
    /\ call.op = "import_energy"
    /\ call.arg > grid.export_limit
    /\ call.ret = call.arg
    /\ call.grid0.total_imported > 0
    /\ call.grid0.total_exported > 0

\* ------------------------------------------------------------------------
\* Properties of the inverter
\* ------------------------------------------------------------------------
\* C9: once Failed with failure_time_remaining = R, the inverter stays Failed
\* after every update until the hours passed to update add up to R; the update
\* that brings the remaining time to 0 or below makes it Operational, with
\* failure_time_remaining 0, and makes no failure draw.
C9_FailedForR ==
    /\ ~inverter.is_operational =>
          /\ outage.elapsed < outage.R
          /\ inverter.failure_time_remaining = outage.R - outage.elapsed
    /\ (~outage.was_operational /\ outage.elapsed < outage.R) => ~inverter.is_operational
    /\ (~outage.was_operational /\ outage.elapsed >= outage.R) =>
          /\ inverter.is_operational
          /\ inverter.failure_time_remaining = 0
          /\ outage.elapsed - outage.dt < outage.R
          /\ outage.draws = 0

\* C9 witness: the update that ends an outage, overshooting its duration.
C9_Witness ==
    /\ ~outage.was_operational
    /\ inverter.is_operational
    /\ outage.R > 0
    /\ outage.elapsed > outage.R

\* ------------------------------------------------------------------------
\* Zero and negative energies
\* ------------------------------------------------------------------------
\* The six operations that take an energy
EnergyOps == {"charge", "discharge", "import_energy", "export_energy", "consume", "record_unmet_load"}

\* C11 as stated: for every energy argument <= 0, Battery.charge,
\* Battery.discharge, Grid.import_energy, Grid.export_energy, Load.consume and
\* Load.record_unmet_load leave every component and counter unchanged and
\* transfer no energy: the amount returned is 0.
C11_NonPositiveIsNoOp ==
    (call.op \in EnergyOps /\ call.arg <= 0) =>
        /\ call.ret = 0
        /\ battery = call.battery0
        /\ grid = call.grid0
        /\ load = call.load0

\* ------------------------------------------------------------------------
\* Configuration
\* ------------------------------------------------------------------------
\* C12 as stated: configurations with min_soc > max_soc, an initial SOC outside
\* [min_soc, max_soc], a negative capacity or a negative limit are rejected at
\* construction, so no component exists in a state built from one of them.
C12_NoInvalidComponent ==
    /\ battery.min_soc <= battery.max_soc
    /\ battery.min_soc <= battery.current_soc
    /\ battery.current_soc <= battery.max_soc
    /\ battery.capacity >= 0
    /\ grid.export_limit >= 0
    /\ inverter.max_output >= 0

\* ------------------------------------------------------------------------
\* Order of the dispatch strategies
\* ------------------------------------------------------------------------
\* C13: in every LOAD_PRIORITY step solar serves the load first; the battery is
\* discharged only if load remains after solar, and is asked for that remainder;
\* the grid import equals the load remaining after the energy the battery
\* delivered; the battery is charged only with the solar remaining after the load
\* is served; export is attempted only with the solar remaining after the charge.
C13_LoadPriorityOrder ==
    (flow.strategy = "LOAD_PRIORITY") =>
        LET load_after_solar  == flow.load_kwh - flow.solar_to_load
            solar_after_load  == flow.solar_kwh - flow.solar_to_load
        IN  /\ flow.solar_to_load = Min(flow.solar_kwh, flow.load_kwh)
            /\ flow.discharge_called <=> load_after_solar > 0
            /\ flow.discharge_called => flow.discharge_arg = load_after_solar
            /\ flow.grid_import = load_after_solar - flow.battery_to_load
            /\ flow.import_called <=> load_after_solar - flow.battery_to_load > 0
            /\ flow.charge_called <=> solar_after_load > 0
            /\ flow.charge_called =>
                  /\ flow.charge_arg = solar_after_load
                  /\ flow.remaining_load = 0
            /\ flow.export_called <=> solar_after_load - flow.charged > 0
            /\ flow.export_called =>
                  /\ flow.charge_called
                  /\ flow.export_arg = solar_after_load - flow.charged

\* C13 witness: LOAD_PRIORITY steps that went through each stage: one whose load
\* needed solar, battery and grid, or one whose solar went to load, battery and
\* export.
C13_Witness ==
    /\ flow.strategy = "LOAD_PRIORITY"
    /\ flow.solar_to_load > 0
    /\ \/ flow.battery_to_load > 0 /\ flow.grid_import > 0
       \/ flow.charged > 0 /\ flow.exported > 0

\* C14: in every PRODUCE_PRIORITY step the exported amount is
\* min(solar_kwh, export_limit); the battery is offered, and the load receives,
\* solar only out of the part of solar_kwh above export_limit; when
\* solar_kwh <= export_limit the battery is charged by 0 and the whole load is
\* served by battery discharge plus grid import.
C14_ProducePriorityExportsFirst ==
    (flow.strategy = "PRODUCE_PRIORITY") =>
        LET above_limit == Max(flow.solar_kwh - grid.export_limit, 0)
        IN  /\ flow.exported = Min(flow.solar_kwh, grid.export_limit)
            /\ flow.charge_arg = above_limit
            /\ flow.charged <= above_limit
            /\ flow.solar_to_load <= above_limit - flow.charged
            /\ (flow.solar_kwh <= grid.export_limit) =>
                  /\ flow.charged = 0
                  /\ flow.solar_to_load = 0
                  /\ flow.load_kwh = flow.battery_to_load + flow.grid_import

\* C14 witness: a PRODUCE_PRIORITY step with solar above the export limit, whose
\* excess charged the battery and reached the load.
C14_Witness ==
    /\ flow.strategy = "PRODUCE_PRIORITY"
    /\ flow.solar_kwh > grid.export_limit
    /\ flow.exported = grid.export_limit
    /\ flow.charged > 0
    /\ flow.solar_to_load > 0

\* ------------------------------------------------------------------------
\* Properties of the simulation loop
\* ------------------------------------------------------------------------
\* The calls of one simulation step, in order
StepCalls == << "Inverter.update", "SolarPanel.generate", "Load.get_demand", "manage_energy_flow", "log_data" >>

\* C15 as stated: every step the simulate process has run made the calls
\* Inverter.update, solar generation, Load.get_demand, dispatch and log record,
\* in that order, logged its record, and handed dispatch a solar energy of 0 if
\* the inverter was Failed after the update.
C15_StepOrder ==
    (sim.pc # "start") =>
        /\ sim.calls = StepCalls
        /\ Len(sim.data_log) > 0
        /\ raised = "none"
        /\ (Stepped /\ ~inverter.is_operational) => flow.solar_kwh = 0

\* ------------------------------------------------------------------------
\* Properties of Inverter.update
\* ------------------------------------------------------------------------
\* C16 as stated: when the inverter is Operational and the step failure draw is
\* triggered, update leaves it Failed with failure_time_remaining an integer in
\* [min_fail_duration, max_fail_duration], total_failures one higher and
\* total_downtime_hours higher by that duration; when the draw is not triggered
\* the inverter is unchanged.
C16_TriggerAlwaysFails ==
    /\ (outage.was_operational /\ outage.draws = 3) =>
          /\ ~inverter.is_operational
          /\ inverter.failure_time_remaining \in inverter.min_fail_duration .. inverter.max_fail_duration
          /\ inverter.total_failures = outage.before.total_failures + 1
          /\ inverter.total_downtime_hours
               = outage.before.total_downtime_hours + inverter.failure_time_remaining
    /\ (outage.was_operational /\ outage.draws = 1) => inverter = outage.before

\* C17: between update calls failure_time_remaining >= 0; the inverter is
\* Operational exactly when failure_time_remaining = 0; it is Operational before
\* the first update; total_failures is the number of Operational -> Failed
\* transitions taken, and total_downtime_hours the sum of the durations they
\* drew, recoveries adding nothing to either.
C17_InverterInvariant ==
    /\ inverter.failure_time_remaining >= 0
    /\ inverter.is_operational <=> inverter.failure_time_remaining = 0
    /\ (outage = NoOutage) => inverter.is_operational
    /\ inverter.total_failures = outage.failures_taken
    /\ inverter.total_downtime_hours = outage.downtime_drawn
    /\ (~outage.was_operational /\ inverter.is_operational) =>
          /\ inverter.total_failures = outage.before.total_failures
          /\ inverter.total_downtime_hours = outage.before.total_downtime_hours

\* C17 witness: the inverter failed once and has recovered.
C17_Witness ==
    /\ ~outage.was_operational
    /\ inverter.is_operational
    /\ inverter.total_failures = 1
    /\ outage.failures_taken = 1
    /\ inverter.total_downtime_hours > 0

\* ------------------------------------------------------------------------
\* Properties of the solar panel
\* ------------------------------------------------------------------------
\* C18: generate_energy returns 0 and leaves total_generated and total_clipped
\* unchanged when the inverter is not operational; otherwise, with raw generation
\* r and limit L, it returns min(r, L), never more than L, adds min(r, L) to
\* total_generated and max(r - L, 0) to total_clipped, and the output plus the
\* clipped loss is r.
C18_GenerateEnergy ==
    (call.op = "generate_energy") =>
        LET r == call.arg
            L == call.limit
        IN  IF ~call.inverter_operational
            THEN /\ call.ret = 0
                 /\ solar = call.solar0
            ELSE /\ call.ret = Min(r, L)
                 /\ call.ret <= L
                 /\ solar.total_generated = call.solar0.total_generated + Min(r, L)
                 /\ solar.total_clipped = call.solar0.total_clipped + Max(r - L, 0)
                 /\ call.ret + (solar.total_clipped - call.solar0.total_clipped) = r

\* C18 witness: a generation above the limit, on a panel that has generated and
\* clipped before.
C18_Witness ==
    /\ call.op = "generate_energy"
    /\ call.inverter_operational
    /\ call.arg > call.limit
    /\ call.ret = call.limit
    /\ call.solar0.total_generated > 0
    /\ call.solar0.total_clipped > 0

\* C19 as stated: total_generated is the sum of the outputs the generation call
\* returned, and a dispatch strategy makes no addition of its own to it: the
\* step ends without the strategy's `total_generated +=` having run.
C19_AccumulatedOnce ==
    /\ solar.total_generated = hist.generated_sum
    /\ Stepped => raised # SolarTotalGeneratedAdd

\* ------------------------------------------------------------------------
\* Bookkeeping of the battery
\* ------------------------------------------------------------------------
\* C20: a discharge that draws d > 0 lowers the stored energy by d, returns
\* d * efficiency and adds d * efficiency to total_discharged; after any sequence
\* of charge and discharge calls
\* efficiency * (initial_energy + total_charged - current_energy) = total_discharged,
\* and charge_cycles and discharge_cycles count the calls that moved a strictly
\* positive amount.
C20_DischargeBookkeeping ==
    /\ MulEff(hist.initial_energy + battery.total_charged - get_current_energy(battery))
         = battery.total_discharged
    /\ battery.charge_cycles = hist.charges_moved
    /\ battery.discharge_cycles = hist.discharges_moved
    /\ (call.op = "discharge") =>
          LET d == Min(call.arg, available(call.battery0))
          IN  IF d > 0
              THEN /\ get_current_energy(battery) = get_current_energy(call.battery0) - d
                   /\ call.ret = MulEff(d)
                   /\ battery.total_discharged = call.battery0.total_discharged + MulEff(d)
                   /\ battery.discharge_cycles = call.battery0.discharge_cycles + 1
              ELSE battery = call.battery0

\* C20 witness: a discharge that drew energy, delivering less than it drew, from
\* a battery that had been charged and discharged before.
C20_Witness ==
    /\ call.op = "discharge"
    /\ get_current_energy(battery) < get_current_energy(call.battery0)
    /\ call.ret < get_current_energy(call.battery0) - get_current_energy(battery)
    /\ call.battery0.total_charged > 0
    /\ call.battery0.total_discharged > 0

\* ------------------------------------------------------------------------
\* Accounts of the grid
\* ------------------------------------------------------------------------
\* C21: after any sequence of import_energy and export_energy calls,
\* total_cost = import_cost * total_imported and
\* total_revenue = export_revenue * total_exported; get_net_cost returns
\* total_cost - total_revenue and changes no state.
C21_GridAccounts ==
    /\ grid.total_cost = grid.import_cost * grid.total_imported
    /\ grid.total_revenue = grid.export_revenue * grid.total_exported
    /\ (call.op = "get_net_cost") =>
          /\ call.ret = grid.total_cost - grid.total_revenue
          /\ grid = call.grid0
          /\ battery = call.battery0
          /\ load = call.load0

\* C21 witness: get_net_cost read on a grid that has imported and has exported
\* above its limit, the revenue exceeding the cost.
C21_Witness ==
    /\ call.op = "get_net_cost"
    /\ grid.total_imported > 0
    /\ grid.total_exported > 0
    /\ prevCall.op = "export_energy"
    /\ prevCall.arg > grid.export_limit
    /\ call.ret < 0

\* ------------------------------------------------------------------------
\* Termination of the simulation loop
\* ------------------------------------------------------------------------
\* C22 as stated: with a positive time step the simulate loop ends once
\* current_hour has reached total_hours = days * 24, and the data log then holds
\* one record per step, total_hours / time_step_hours in all, in increasing
\* timestamp order.
C22_LoopRunsToEnd ==
    (time_step_hours > 0 /\ sim.pc # "start") =>
        /\ sim.current_hour >= total_hours
        /\ Len(sim.data_log) = total_hours \div time_step_hours
        /\ \A i \in 1 .. Len(sim.data_log) - 1 :
              sim.data_log[i].timestamp_hours < sim.data_log[i + 1].timestamp_hours

\* ------------------------------------------------------------------------
\* Exclusions within one LOAD_PRIORITY step
\* ------------------------------------------------------------------------
\* C23: in a LOAD_PRIORITY step the battery is never both discharged and
\* charged and the grid never both imported from and exported to; a discharge or
\* an import implies that the load consumed the whole solar energy, a charge or
\* an export that solar served the whole load.
C23_LoadPriorityExclusive ==
    (flow.strategy = "LOAD_PRIORITY") =>
        /\ ~(flow.discharge_called /\ flow.charge_called)
        /\ ~(flow.drawn > 0 /\ flow.charged > 0)
        /\ ~(flow.import_called /\ flow.export_called)
        /\ ~(flow.grid_import > 0 /\ flow.exported > 0)
        /\ (flow.discharge_called \/ flow.import_called) => flow.solar_to_load = flow.solar_kwh
        /\ (flow.charge_called \/ flow.export_called) => flow.solar_to_load = flow.load_kwh

\* C23 witness: the battery served a LOAD_PRIORITY step in both directions over
\* time: this step discharged it and imported, after an earlier one had charged
\* it and exported.
C23_Witness ==
    /\ flow.strategy = "LOAD_PRIORITY"
    /\ flow.drawn > 0
    /\ flow.grid_import > 0
    /\ battery.total_charged > 0
    /\ grid.total_exported > 0

\* ------------------------------------------------------------------------
\* The battery and the load left by solar
\* ------------------------------------------------------------------------
\* C24: in every strategy, with efficiency < 1, whenever load remains after the
\* solar-to-load step the battery is asked for exactly that remaining load,
\* delivers at most remaining_load * efficiency, so never all of it, and the
\* grid imports a strictly positive amount in the same step.
C24_BatteryNeverFullyServes ==
    (Stepped /\ EffNum < EffDen /\ flow.load_kwh - flow.solar_to_load > 0) =>
        LET load_after_solar == flow.load_kwh - flow.solar_to_load
        IN  /\ flow.discharge_called
            /\ flow.discharge_arg = load_after_solar
            /\ flow.battery_to_load <= MulEff(load_after_solar)
            /\ flow.battery_to_load < load_after_solar
            /\ flow.import_called
            /\ flow.grid_import > 0
            /\ flow.grid_import = load_after_solar - flow.battery_to_load

\* C24 witness: a step whose battery held more than the load left by solar, drew
\* all that was asked, and still left a part to the grid.
C24_Witness ==
    /\ Stepped
    /\ flow.discharge_called
    /\ flow.discharge_arg > 0
    /\ flow.drawn = flow.discharge_arg
    /\ flow.battery_to_load > 0
    /\ flow.grid_import > 0

\* ------------------------------------------------------------------------
\* Export per step
\* ------------------------------------------------------------------------
\* C25: every strategy exports at most once per step, so the energy exported in
\* one step never exceeds export_limit, and after n steps
\* total_exported <= n * export_limit.
C25_ExportPerStep ==
    /\ Stepped => flow.exported <= grid.export_limit
    /\ grid.total_exported <= steps * grid.export_limit

\* C25 witness: several steps, each exporting the whole export_limit.
C25_Witness ==
    /\ Stepped
    /\ steps >= 2
    /\ flow.export_arg > grid.export_limit
    /\ flow.exported = grid.export_limit
    /\ grid.total_exported = steps * grid.export_limit

\* ------------------------------------------------------------------------
\* Transient quantities of a step
\* ------------------------------------------------------------------------
\* C26: with a battery within its SOC limits and non-negative solar_kwh and
\* load_kwh, remaining_solar and remaining_load are >= 0 at every point of every
\* strategy (the amounts offered to charge, discharge and export are their
\* intermediate values), and each of solar_to_load, charged, battery_to_load,
\* grid_import and exported is >= 0 and at most the amount offered to it.
C26_TransientsNonNegative ==
    Stepped =>
        /\ flow.remaining_solar >= 0
        /\ flow.remaining_load >= 0
        /\ flow.charge_arg >= 0
        /\ flow.discharge_arg >= 0
        /\ flow.export_arg >= 0
        /\ 0 <= flow.solar_to_load
        /\ flow.solar_to_load <= Min(flow.solar_kwh, flow.load_kwh)
        /\ 0 <= flow.charged
        /\ flow.charged <= flow.charge_arg
        /\ 0 <= flow.battery_to_load
        /\ flow.battery_to_load <= flow.discharge_arg
        /\ 0 <= flow.grid_import
        /\ flow.grid_import <= flow.load_kwh - flow.solar_to_load - flow.battery_to_load
        /\ 0 <= flow.exported
        /\ flow.exported <= flow.export_arg

\* C26 witness: a step in which all five transfers were strictly positive.
C26_Witness ==
    /\ Stepped
    /\ flow.solar_to_load > 0
    /\ flow.charged > 0
    /\ flow.battery_to_load > 0
    /\ flow.grid_import > 0
    /\ flow.exported > 0

\* ------------------------------------------------------------------------
\* Unknown strategy names
\* ------------------------------------------------------------------------
\* A dispatch step under a strategy value that is none of the three names
UnknownStep == strategy \notin Strategies /\ steps' = steps + 1

\* The step left battery, grid and load as _load_priority_strategy leaves them
SameAsLoadPriority ==
    LET r == _load_priority_strategy(battery, grid, load, flow'.solar_kwh, flow'.load_kwh)
    IN  /\ battery' = r.battery
        /\ grid' = r.grid
        /\ load' = r.load

\* C27 as stated: with a strategy value that is none of LOAD_PRIORITY,
\* CHARGE_PRIORITY, PRODUCE_PRIORITY, manage_energy_flow leaves battery, grid and
\* load as the LOAD_PRIORITY strategy does, from every state and for every
\* (solar_kwh, load_kwh), and raises no error.
C27_UnknownIsLoadPriority ==
    [][ UnknownStep => (SameAsLoadPriority /\ raised' = "none") ]_vars

====
